---------------------------- MODULE Spec2Model ----------------------------
(***************************************************************************)
(* The scaleway_rdb_user resource of terraform-provider-scaleway           *)
(* (scaleway/resource_rdb_user.go): the four lifecycle operations Create,  *)
(* Read, Update and Delete, the conflict-retrying mutation they wrap, and   *)
(* the identifier codec "Region/InstanceId/UserName".                      *)
(*                                                                         *)
(* Strings are sequences of one-character strings, so that strings.Split   *)
(* and fmt.Sprintf are computed on characters.  The remote API (the RDB     *)
(* service behind rdbAPI) is the environment: every remote call draws its   *)
(* reply from the replies the API can give.                                *)
(***************************************************************************)
EXTENDS Integers, Sequences, FiniteSets, TLC

VARIABLES
    id,          \* d.Id(): the persisted identifier ("" is <<>>)
    d,           \* the attributes of the schema.ResourceData (d.Get / d.Set)
    old,         \* the attributes of the prior state (what d.HasChange compares with)
    op,          \* the lifecycle operation in progress
    pc,          \* the position inside that operation
    region,      \* local variable region
    instanceID,  \* local variable instanceID
    userName,    \* local variable userName
    user,        \* local variable user (the *rdb.User the create returned), Nil before
    req,         \* the last rdb.UpdateUserRequest built, Nil before
    elapsed,     \* time spent inside resource.RetryContext, in attempts
    lastErr,     \* resultErr of resource.RetryContext: the closure's last error
    result,      \* what the operation returned: "ok", "error" or "panic"
    err,         \* the error inside the returned diagnostics ("nil" when none)
    log,         \* the remote calls made by the operation in progress, in order
    pre,         \* id and attributes when the operation was entered
    prev,        \* the operation before this one: what it was, its result, its identifier
    timedOut,    \* resource.RetryContext ended this operation on its timeout
    nOps,        \* lifecycle operations started so far
    cPhase,      \* codec harness: which step was applied
    cArgs,       \* codec harness: the components handed to resourceScalewayRdbUserID
    cStr,        \* codec harness: the identifier string
    cParsed      \* codec harness: what resourceScalewayRdbUserParseID returned

vars == <<id, d, old, op, pc, region, instanceID, userName, user, req, elapsed,
          lastErr, result, err, log, pre, prev, timedOut, nOps, cPhase, cArgs, cStr, cParsed>>

lifecycleVars == <<id, d, old, op, pc, region, instanceID, userName, user, req,
                   elapsed, lastErr, result, err, log, pre, prev, timedOut, nOps>>

codecVars == <<cPhase, cArgs, cStr, cParsed>>

-----------------------------------------------------------------------------
(* Bounds of the model *)

\* lifecycle operations per behaviour
MaxOps == 3
\* closure invocations that fit into d.Timeout(...) inside resource.RetryContext
TimeoutTicks == 2
\* users a ListUsers response holds at most
MaxUsers == 1
\* characters per component in the codec harness
MaxCompLen == 2
\* characters per raw identifier string in the codec harness
MaxIdLen == 5

-----------------------------------------------------------------------------
(* Strings *)

Nil == "nil"
Empty == <<>>
Sep == "/"
Char == {"a", "b", Sep}

\* strings.Split(s, "/"): the pieces between the separators; one piece, the
\* empty string, for the empty string.
RECURSIVE Split(_)
Split(s) ==
    IF \A k \in 1..Len(s) : s[k] # Sep THEN <<s>>
    ELSE LET k == CHOOSE j \in 1..Len(s) :
                      /\ s[j] = Sep
                      /\ \A h \in 1..(j - 1) : s[h] # Sep
         IN  <<SubSeq(s, 1, k - 1)>> \o Split(SubSeq(s, k + 1, Len(s)))


-----------------------------------------------------------------------------
(* The identifier codec *)

\* the identifier with its first two components in the other order
resourceScalewayRdbUserIDSwapped(rg, iid, name) ==
    iid \o <<Sep>> \o rg \o <<Sep>> \o name

\* fmt.Sprintf("%s/%s/%s", region, instanceID, userName)
resourceScalewayRdbUserID(rg, iid, name) ==
    rg \o <<Sep>> \o iid \o <<Sep>> \o name

\* strings.Split on "/", exactly three parts or an error with empty results
resourceScalewayRdbUserParseID(resourceID) ==
    LET idParts == Split(resourceID)
    IN  IF Len(idParts) # 3
        THEN [region |-> Empty, instanceID |-> Empty, userName |-> Empty, err |-> TRUE]
        ELSE [region |-> idParts[1], instanceID |-> idParts[2],
              userName |-> idParts[3], err |-> FALSE]

\* parseRegionalID: the two-component decode of "locality/remoteID"; all
\* components or an error, no partial result.
parseRegionalID(regionalID) ==
    LET tab == Split(regionalID)
    IN  IF Len(tab) # 2
        THEN [region |-> Empty, id |-> Empty, err |-> TRUE]
        ELSE [region |-> tab[1], id |-> tab[2], err |-> FALSE]

\* expandID: the remoteID of a "locality/remoteID" string, or the string
\* itself when it carries no locality.
expandID(s) ==
    LET p == parseRegionalID(s) IN IF p.err THEN s ELSE p.id

\* newRegionalID(region, id).String()
newRegionalID(rg, iid) == rg \o <<Sep>> \o iid

-----------------------------------------------------------------------------
(* Errors *)

\* the classes of error a remote call of rdbAPI can fail with
RemoteErrors == {"Conflict", "NotFound", "Transport", "Auth"}

\* the errors waitForRDBInstance can fail with: the deadline elapsed, the
\* instance is gone (the remote reports not-found), the instance is in error
WaitErrors == {"Timeout", "NotFound", "ProvisioningFailed"}

is409Error(e) == e = "Conflict"

is404Error(e) == e = "NotFound"

\* a retry loop without a deadline
RetryDeadlineNever(t) == FALSE

\* resource.RetryContext(ctx, d.Timeout(...), f) calls f again only while its
\* timeout has not elapsed; every call of f takes one tick
RetryDeadlineElapsed(t) == t >= TimeoutTicks

\* what resource.RetryContext returns once its timeout has elapsed: the
\* closure's last error when there is one, else its own timeout error
RetryContextTimeout(resultErr) ==
    IF resultErr = Nil THEN "Timeout" ELSE resultErr

\* Delete without the is404Error test of line 211
DeleteDiagnosticsNo404(e) == e

\* lines 211-215: the error Delete reports, given what RetryContext returned
DeleteDiagnostics(e) ==
    IF e # Nil /\ ~is404Error(e) THEN e ELSE Nil

-----------------------------------------------------------------------------
(* The values the configuration and the remote API range over *)

FrPar == <<"f">>
NlAms == <<"n">>
ProviderDefaultRegion == NlAms
InstanceUUID == <<"i">>

\* instance_id: validationUUIDorUUIDWithLocality accepts both forms
InstanceRefs == {newRegionalID(FrPar, InstanceUUID), InstanceUUID}
\* user names
Names == {<<"u">>, <<"v">>}
Passwords == {<<"p">>, <<"q">>}
\* region: the optional attribute of regionSchema(), Empty when unset
RegionAttrs == {Empty, FrPar, NlAms}

Configs ==
    [instance_id : InstanceRefs, name : Names, password : Passwords,
     is_admin : BOOLEAN, region : RegionAttrs]

NoAttrs ==
    [instance_id |-> Empty, name |-> Empty, password |-> Empty,
     is_admin |-> FALSE, region |-> Empty]

\* strings an operator can hand to terraform import
ImportIDs ==
    {resourceScalewayRdbUserID(FrPar, InstanceUUID, <<"u">>),
     newRegionalID(FrPar, InstanceUUID),
     resourceScalewayRdbUserID(Empty, InstanceUUID, <<"u">>),
     resourceScalewayRdbUserID(FrPar, InstanceUUID, <<"u", Sep, "v">>)}

NoUser == [name |-> Empty, is_admin |-> FALSE, set |-> FALSE]

\* a nil pointer is <<>>, a pointer to v is <<v>>
NilPtr == <<>>
Ptr(v) == <<v>>

\* expandStringPtr / scw.BoolPtr
expandStringPtr(v) == Ptr(v)

NoReq ==
    [Region |-> Empty, InstanceID |-> Empty, Name |-> Empty,
     Password |-> NilPtr, IsAdmin |-> NilPtr, built |-> FALSE]

WaitReplies == {"ok"} \cup WaitErrors
MutationReplies == {"ok"} \cup RemoteErrors

RemoteUsers == [name : Names, is_admin : BOOLEAN]

RECURSIVE SeqsUpTo(_, _)
SeqsUpTo(S, n) ==
    IF n = 0 THEN {<<>>}
    ELSE LET shorter == SeqsUpTo(S, n - 1)
         IN  shorter \cup {Append(s, x) : s \in {t \in shorter : Len(t) = n - 1}, x \in S}

\* rdbAPI.ListUsers: an error, or a response with a list of users
ListUsersReplies ==
    {[err |-> e, users |-> <<>>] : e \in RemoteErrors}
        \cup {[err |-> Nil, users |-> us] : us \in SeqsUpTo(RemoteUsers, MaxUsers)}

\* the region a request reaches: the API client fills an empty Region with
\* the provider-wide default
TargetedRegion(rg) == IF rg = Empty THEN ProviderDefaultRegion ELSE rg

Call(api, rg, iid, reply) ==
    [api |-> api, region |-> rg, instanceID |-> iid, reply |-> reply]

\* d.HasChange(key)
HasChange(key) == old[key] # d[key]


-----------------------------------------------------------------------------
(* Pieces of the operations *)

\* the closure with every failed mutation retried, whatever its error
ClosureVerdictRetryAnyError(reply) ==
    IF reply = "ok" THEN "success" ELSE "wait-then-retry"

\* the closure without its "return nil": the mutation is sent again after it
\* succeeded
ClosureVerdictRetrySuccess(reply) ==
    IF reply = "ok" \/ is409Error(reply) THEN "wait-then-retry" ELSE "non-retryable"

\* lines 84-97 and 192-208: what the retried closure returns for a reply of
\* the remote mutation: nil, a retryable error (after the wait), or a
\* non-retryable error
ClosureVerdict(reply) ==
    IF reply = "ok" THEN "success"
    ELSE IF is409Error(reply) THEN "wait-then-retry"
    ELSE "non-retryable"

\* the closure retrying although the wait after the conflict failed
AfterConflictWaitIgnored(errWait, errMutation) ==
    [retry |-> TRUE, err |-> errMutation]

\* lines 87-91 and 199-203: the closure's verdict after the wait that follows
\* a conflict
AfterConflictWait(errWait, errMutation) ==
    IF errWait # "ok"
    THEN [retry |-> FALSE, err |-> errWait]
    ELSE [retry |-> TRUE, err |-> errMutation]

\* lines 62-63: the region and instance Create works on, from instance_id
\* alone; the error of parseRegionalID is dropped (line 65 does not return)
CreateLocality(attrs) ==
    LET p == parseRegionalID(attrs.instance_id)
    IN  [region |-> p.region, instanceID |-> p.id]

\* line 103
CreateIdentifier(rg, iid, created) ==
    resourceScalewayRdbUserID(rg, expandID(iid), created.name)

\* Read clearing the identifier on every failed lookup
ReadLookupFailureClearsId(e, current) ==
    [id |-> Empty, result |-> IF is404Error(e) THEN "ok" ELSE "error",
     err |-> IF is404Error(e) THEN Nil ELSE e]

\* Read without the is404Error test of line 127
ReadLookupFailureNo404(e, current) ==
    [id |-> current, result |-> "error", err |-> e]

\* lines 126-132: Read's outcome for a failed ListUsers
ReadLookupFailure(e, current) ==
    IF is404Error(e)
    THEN [id |-> Empty, result |-> "ok", err |-> Nil]
    ELSE [id |-> current, result |-> "error", err |-> e]

\* lines 135-137: the attributes after the d.Set calls of Read
ReadAttributes(attrs, rg, iid, found) ==
    [attrs EXCEPT !.instance_id = newRegionalID(rg, iid),
                  !.name = found.name,
                  !.is_admin = found.is_admin]

\* Update sending the full declared state
UpdateUserRequestFull(rg, iid, name) ==
    [Region |-> rg, InstanceID |-> iid, Name |-> name,
     Password |-> expandStringPtr(d.password),
     IsAdmin |-> Ptr(d.is_admin),
     built |-> TRUE]

\* lines 157-168: the update request
UpdateUserRequest(rg, iid, name) ==
    [Region |-> rg, InstanceID |-> iid, Name |-> name,
     Password |-> IF HasChange("password") THEN expandStringPtr(d.password) ELSE NilPtr,
     IsAdmin |-> IF HasChange("is_admin") THEN Ptr(d.is_admin) ELSE NilPtr,
     built |-> TRUE]

Idle == pc \in {"idle", "done"}

\* entering an operation: fresh locals
Enter(o) ==
    /\ op' = o
    /\ user' = NoUser
    /\ req' = NoReq
    /\ elapsed' = 0
    /\ lastErr' = Nil
    /\ log' = <<>>
    /\ prev' = [op |-> op, result |-> result, id |-> pre.id]
    /\ timedOut' = FALSE
    /\ nOps' = nOps + 1

\* nothing returned yet
Running(at) ==
    /\ pc' = at
    /\ result' = "none"
    /\ err' = Nil

\* the operation returns
Return(res, e) ==
    /\ pc' = "done"
    /\ result' = res
    /\ err' = e

-----------------------------------------------------------------------------
(* Initial state *)

CodecOff ==
    /\ cPhase = "off"
    /\ cArgs = <<Empty, Empty, Empty>>
    /\ cStr = Empty
    /\ cParsed = resourceScalewayRdbUserParseID(Empty)

LifecycleInit ==
    /\ id = Empty
    /\ d = NoAttrs
    /\ old = NoAttrs
    /\ op = "none"
    /\ pc = "idle"
    /\ region = Empty
    /\ instanceID = Empty
    /\ userName = Empty
    /\ user = NoUser
    /\ req = NoReq
    /\ elapsed = 0
    /\ lastErr = Nil
    /\ result = "none"
    /\ err = Nil
    /\ log = <<>>
    /\ pre = [id |-> Empty, d |-> NoAttrs]
    /\ prev = [op |-> "none", result |-> "none", id |-> Empty]
    /\ timedOut = FALSE
    /\ nOps = 0

Init == LifecycleInit /\ CodecOff

-----------------------------------------------------------------------------
(* Import: schema.ImportStatePassthroughContext, lines 21-23 *)

ImportStatePassthrough ==
    /\ Idle
    /\ id = Empty
    /\ nOps < MaxOps
    /\ \E s \in ImportIDs : id' = s
    /\ d' = NoAttrs
    /\ old' = NoAttrs
    /\ pre' = [id |-> Empty, d |-> NoAttrs]
    /\ region' = Empty
    /\ instanceID' = Empty
    /\ userName' = Empty
    /\ Enter("Import")
    /\ Return("ok", Nil)
    /\ UNCHANGED codecVars

-----------------------------------------------------------------------------
(* Create, lines 59-106 *)

\* lines 59-66
resourceScalewayRdbUserCreate ==
    /\ Idle
    /\ id = Empty
    /\ nOps < MaxOps
    /\ \E cfg \in Configs :
          /\ d' = cfg
          /\ pre' = [id |-> id, d |-> cfg]
          /\ region' = CreateLocality(cfg).region
          /\ instanceID' = CreateLocality(cfg).instanceID
    /\ old' = NoAttrs
    /\ userName' = Empty
    /\ Enter("Create")
    /\ Running("c_wait")
    /\ UNCHANGED id
    /\ UNCHANGED codecVars

\* lines 68-79
CreateWaitForRDBInstance ==
    /\ pc = "c_wait"
    /\ \E r \in WaitReplies :
          /\ log' = Append(log, Call("WaitForInstance", region, instanceID, r))
          /\ IF r # "ok"
             THEN Return("error", r)
             ELSE pc' = "c_create" /\ UNCHANGED <<result, err>>
    /\ UNCHANGED <<id, d, old, op, region, instanceID, userName, user, req, elapsed,
                   lastErr, pre, prev, timedOut, nOps>>
    /\ UNCHANGED codecVars

\* lines 83-98: one invocation of the closure by resource.RetryContext
CreateUserAttempt ==
    /\ pc = "c_create"
    /\ ~RetryDeadlineElapsed(elapsed)
    /\ elapsed' = elapsed + 1
    /\ \E r \in MutationReplies :
          /\ log' = Append(log, Call("CreateUser", region, instanceID, r))
          /\ CASE ClosureVerdict(r) = "success" ->
                    /\ user' = [name |-> d.name, is_admin |-> d.is_admin, set |-> TRUE]
                    /\ lastErr' = Nil
                    /\ pc' = "c_setid"
                    /\ UNCHANGED <<result, err>>
               [] ClosureVerdict(r) = "wait-then-retry" ->
                    /\ lastErr' = r
                    /\ pc' = "c_rewait"
                    /\ UNCHANGED <<user, result, err>>
               [] OTHER ->
                    /\ lastErr' = r
                    /\ Return("error", r)
                    /\ UNCHANGED user
    /\ UNCHANGED <<id, d, old, op, region, instanceID, userName, req, pre, prev, timedOut, nOps>>
    /\ UNCHANGED codecVars

\* lines 87-91
CreateRetryWait ==
    /\ pc = "c_rewait"
    /\ \E r \in WaitReplies :
          /\ log' = Append(log, Call("WaitForInstance", region, instanceID, r))
          /\ lastErr' = AfterConflictWait(r, lastErr).err
          /\ IF AfterConflictWait(r, lastErr).retry
             THEN pc' = "c_create" /\ UNCHANGED <<result, err>>
             ELSE Return("error", AfterConflictWait(r, lastErr).err)
    /\ UNCHANGED <<id, d, old, op, region, instanceID, userName, user, req, elapsed,
                   pre, prev, timedOut, nOps>>
    /\ UNCHANGED codecVars

\* lines 83 and 99-103: the timeout of resource.RetryContext has elapsed; with
\* a nil error line 103 would read the Name of a nil user
CreateRetryTimeout ==
    /\ pc = "c_create"
    /\ RetryDeadlineElapsed(elapsed)
    /\ timedOut' = TRUE
    /\ IF RetryContextTimeout(lastErr) # Nil
       THEN Return("error", RetryContextTimeout(lastErr))
       ELSE Return("panic", "NilPointer")
    /\ UNCHANGED <<id, d, old, op, region, instanceID, userName, user, req, elapsed,
                   lastErr, log, pre, prev, nOps>>
    /\ UNCHANGED codecVars

\* lines 103-105: the identifier is set, then Read runs
CreateSetId ==
    /\ pc = "c_setid"
    /\ id' = CreateIdentifier(region, instanceID, user)
    /\ pc' = "r_parse"
    /\ UNCHANGED <<d, old, op, region, instanceID, userName, user, req, elapsed,
                   lastErr, result, err, log, pre, prev, timedOut, nOps>>
    /\ UNCHANGED codecVars

-----------------------------------------------------------------------------
(* Read, lines 108-142 *)

\* Read called by the framework (refresh)
resourceScalewayRdbUserRead ==
    /\ Idle
    /\ id # Empty
    /\ nOps < MaxOps
    /\ old' = d
    /\ pre' = [id |-> id, d |-> d]
    /\ region' = Empty
    /\ instanceID' = Empty
    /\ userName' = Empty
    /\ Enter("Read")
    /\ Running("r_parse")
    /\ UNCHANGED <<id, d>>
    /\ UNCHANGED codecVars

\* lines 109-113
ReadParseID ==
    /\ pc = "r_parse"
    /\ LET p == resourceScalewayRdbUserParseID(id)
       IN  IF p.err
           THEN /\ Return("error", "MalformedIdentifier")
                /\ UNCHANGED <<region, instanceID, userName>>
           ELSE /\ region' = p.region
                /\ instanceID' = p.instanceID
                /\ userName' = p.userName
                /\ pc' = "r_wait"
                /\ UNCHANGED <<result, err>>
    /\ UNCHANGED <<id, d, old, op, user, req, elapsed, lastErr, log, pre, prev, timedOut, nOps>>
    /\ UNCHANGED codecVars

\* lines 115-118
ReadWaitForRDBInstance ==
    /\ pc = "r_wait"
    /\ \E r \in WaitReplies :
          /\ log' = Append(log, Call("WaitForInstance", region, instanceID, r))
          /\ IF r # "ok"
             THEN Return("error", r)
             ELSE pc' = "r_list" /\ UNCHANGED <<result, err>>
    /\ UNCHANGED <<id, d, old, op, region, instanceID, userName, user, req, elapsed,
                   lastErr, pre, prev, timedOut, nOps>>
    /\ UNCHANGED codecVars

\* lines 120-141; res.Users[0] of an empty list panics (index out of range)
ReadListUsers ==
    /\ pc = "r_list"
    /\ \E rep \in ListUsersReplies :
          /\ log' = Append(log, Call("ListUsers", region, instanceID,
                                     IF rep.err = Nil THEN "ok" ELSE rep.err))
          /\ IF rep.err # Nil
             THEN /\ id' = ReadLookupFailure(rep.err, id).id
                  /\ Return(ReadLookupFailure(rep.err, id).result,
                            ReadLookupFailure(rep.err, id).err)
                  /\ UNCHANGED d
             ELSE IF Len(rep.users) = 0
             THEN /\ Return("panic", "IndexOutOfRange")
                  /\ UNCHANGED <<id, d>>
             ELSE /\ d' = ReadAttributes(d, region, instanceID, rep.users[1])
                  /\ id' = resourceScalewayRdbUserID(region, instanceID, rep.users[1].name)
                  /\ Return("ok", Nil)
    /\ UNCHANGED <<old, op, region, instanceID, userName, user, req, elapsed,
                   lastErr, pre, prev, timedOut, nOps>>
    /\ UNCHANGED codecVars


-----------------------------------------------------------------------------
(* Update, lines 144-176 *)

\* lines 144-150, entered with the planned password and is_admin
resourceScalewayRdbUserUpdate ==
    /\ Idle
    /\ id # Empty
    /\ nOps < MaxOps
    /\ old' = d
    /\ \E pw \in Passwords, adm \in BOOLEAN :
          /\ d' = [d EXCEPT !.password = pw, !.is_admin = adm]
          /\ pre' = [id |-> id, d |-> d']
    /\ Enter("Update")
    /\ LET p == resourceScalewayRdbUserParseID(id)
       IN  /\ region' = p.region
           /\ instanceID' = p.instanceID
           /\ userName' = p.userName
           /\ Running(IF p.err THEN "u_malformed" ELSE "u_wait")
    /\ UNCHANGED id
    /\ UNCHANGED codecVars

\* lines 148-150 and 182-184
ReturnMalformed ==
    /\ pc \in {"u_malformed", "d_malformed"}
    /\ Return("error", "MalformedIdentifier")
    /\ UNCHANGED <<id, d, old, op, region, instanceID, userName, user, req, elapsed,
                   lastErr, log, pre, prev, timedOut, nOps>>
    /\ UNCHANGED codecVars

\* lines 152-155
UpdateWaitForRDBInstance ==
    /\ pc = "u_wait"
    /\ \E r \in WaitReplies :
          /\ log' = Append(log, Call("WaitForInstance", region, instanceID, r))
          /\ IF r # "ok"
             THEN Return("error", r)
             ELSE pc' = "u_update" /\ UNCHANGED <<result, err>>
    /\ UNCHANGED <<id, d, old, op, region, instanceID, userName, user, req, elapsed,
                   lastErr, pre, prev, timedOut, nOps>>
    /\ UNCHANGED codecVars

\* lines 157-175: the request is built and sent once; then Read runs
UpdateUserCall ==
    /\ pc = "u_update"
    /\ req' = UpdateUserRequest(region, instanceID, userName)
    /\ \E r \in MutationReplies :
          /\ log' = Append(log, Call("UpdateUser", region, instanceID, r))
          /\ IF r # "ok"
             THEN Return("error", r)
             ELSE pc' = "r_parse" /\ UNCHANGED <<result, err>>
    /\ UNCHANGED <<id, d, old, op, region, instanceID, userName, user, elapsed,
                   lastErr, pre, prev, timedOut, nOps>>
    /\ UNCHANGED codecVars

-----------------------------------------------------------------------------
(* Delete, lines 178-216 *)

\* lines 178-184
resourceScalewayRdbUserDelete ==
    /\ Idle
    /\ id # Empty
    /\ nOps < MaxOps
    /\ old' = d
    /\ pre' = [id |-> id, d |-> d]
    /\ Enter("Delete")
    /\ LET p == resourceScalewayRdbUserParseID(id)
       IN  /\ region' = p.region
           /\ instanceID' = p.instanceID
           /\ userName' = p.userName
           /\ Running(IF p.err THEN "d_malformed" ELSE "d_wait")
    /\ UNCHANGED <<id, d>>
    /\ UNCHANGED codecVars

\* lines 186-189
DeleteWaitForRDBInstance ==
    /\ pc = "d_wait"
    /\ \E r \in WaitReplies :
          /\ log' = Append(log, Call("WaitForInstance", region, instanceID, r))
          /\ IF r # "ok"
             THEN Return("error", r)
             ELSE pc' = "d_delete" /\ UNCHANGED <<result, err>>
    /\ UNCHANGED <<id, d, old, op, region, instanceID, userName, user, req, elapsed,
                   lastErr, pre, prev, timedOut, nOps>>
    /\ UNCHANGED codecVars

\* a Delete that ends with d.SetId(""), whatever it returns
DeleteIdentifierCleared(current, diagnostics) == Empty

\* lines 178-216 hold no d.SetId: the identifier Delete returns with
DeleteIdentifier(current, diagnostics) == current

\* the outcome of Delete for the error resource.RetryContext returned
DeleteReturn(e) ==
    Return(IF DeleteDiagnostics(e) = Nil THEN "ok" ELSE "error", DeleteDiagnostics(e))

\* lines 191-215: one invocation of the closure by resource.RetryContext
DeleteUserAttempt ==
    /\ pc = "d_delete"
    /\ ~RetryDeadlineElapsed(elapsed)
    /\ elapsed' = elapsed + 1
    /\ \E r \in MutationReplies :
          /\ log' = Append(log, Call("DeleteUser", region, instanceID, r))
          /\ CASE ClosureVerdict(r) = "success" ->
                    /\ lastErr' = Nil
                    /\ DeleteReturn(Nil)
               [] ClosureVerdict(r) = "wait-then-retry" ->
                    /\ lastErr' = r
                    /\ pc' = "d_rewait"
                    /\ UNCHANGED <<result, err>>
               [] OTHER ->
                    /\ lastErr' = r
                    /\ DeleteReturn(r)
    /\ id' = IF pc' = "done" THEN DeleteIdentifier(id, err') ELSE id
    /\ UNCHANGED <<d, old, op, region, instanceID, userName, user, req, pre, prev,
                   timedOut, nOps>>
    /\ UNCHANGED codecVars

\* lines 199-203 and 211-215
DeleteRetryWait ==
    /\ pc = "d_rewait"
    /\ \E r \in WaitReplies :
          /\ log' = Append(log, Call("WaitForInstance", region, instanceID, r))
          /\ lastErr' = AfterConflictWait(r, lastErr).err
          /\ IF AfterConflictWait(r, lastErr).retry
             THEN pc' = "d_delete" /\ UNCHANGED <<result, err>>
             ELSE DeleteReturn(AfterConflictWait(r, lastErr).err)
    /\ id' = IF pc' = "done" THEN DeleteIdentifier(id, err') ELSE id
    /\ UNCHANGED <<d, old, op, region, instanceID, userName, user, req, elapsed,
                   pre, prev, timedOut, nOps>>
    /\ UNCHANGED codecVars

\* lines 191 and 211-215: the timeout of resource.RetryContext has elapsed
DeleteRetryTimeout ==
    /\ pc = "d_delete"
    /\ RetryDeadlineElapsed(elapsed)
    /\ timedOut' = TRUE
    /\ DeleteReturn(RetryContextTimeout(lastErr))
    /\ id' = DeleteIdentifier(id, err')
    /\ UNCHANGED <<d, old, op, region, instanceID, userName, user, req, elapsed,
                   lastErr, log, pre, prev, nOps>>
    /\ UNCHANGED codecVars

-----------------------------------------------------------------------------
(* The lifecycle *)

Next ==
    \/ ImportStatePassthrough
    \/ resourceScalewayRdbUserCreate
    \/ CreateWaitForRDBInstance
    \/ CreateUserAttempt
    \/ CreateRetryWait
    \/ CreateRetryTimeout
    \/ CreateSetId
    \/ resourceScalewayRdbUserRead
    \/ ReadParseID
    \/ ReadWaitForRDBInstance
    \/ ReadListUsers
    \/ resourceScalewayRdbUserUpdate
    \/ ReturnMalformed
    \/ UpdateWaitForRDBInstance
    \/ UpdateUserCall
    \/ resourceScalewayRdbUserDelete
    \/ DeleteWaitForRDBInstance
    \/ DeleteUserAttempt
    \/ DeleteRetryWait
    \/ DeleteRetryTimeout

Spec == Init /\ [][Next]_vars

-----------------------------------------------------------------------------
(* The codec on its own: every component triple is encoded and decoded    *)
(* back, every raw string is decoded.                                       *)

Components == SeqsUpTo(Char, MaxCompLen)
RawStrings == SeqsUpTo(Char, MaxIdLen)

CodecInit ==
    /\ LifecycleInit
    /\ cParsed = resourceScalewayRdbUserParseID(Empty)
    /\ \/ /\ cPhase = "args"
          /\ cArgs \in Components \X Components \X Components
          /\ cStr = Empty
       \/ /\ cPhase = "raw"
          /\ cArgs = <<Empty, Empty, Empty>>
          /\ cStr \in RawStrings

CodecEncode ==
    /\ cPhase = "args"
    /\ cStr' = resourceScalewayRdbUserID(cArgs[1], cArgs[2], cArgs[3])
    /\ cPhase' = "encoded"
    /\ UNCHANGED <<cArgs, cParsed>>
    /\ UNCHANGED lifecycleVars

CodecDecode ==
    /\ cPhase \in {"encoded", "raw"}
    /\ cParsed' = resourceScalewayRdbUserParseID(cStr)
    /\ cPhase' = IF cPhase = "encoded" THEN "roundtrip" ELSE "decoded"
    /\ UNCHANGED <<cArgs, cStr>>
    /\ UNCHANGED lifecycleVars

CodecNext == CodecEncode \/ CodecDecode

CodecSpec == CodecInit /\ [][CodecNext]_vars


-----------------------------------------------------------------------------
(* Properties *)

Returned(o) == op = o /\ pc = "done"

CallsOf(api) == SelectSeq(log, LAMBDA c : c.api = api)

LastCallIs(api, reply) ==
    /\ Len(log) > 0
    /\ log[Len(log)].api = api
    /\ log[Len(log)].reply = reply

\* a remote create call of the operation in progress succeeded
CreateSucceeded ==
    \E i \in 1..Len(log) : log[i].api = "CreateUser" /\ log[i].reply = "ok"

\* the identifier line 103 builds for the operation in progress
IdentifierOfCreate ==
    resourceScalewayRdbUserID(CreateLocality(pre.d).region,
                              expandID(CreateLocality(pre.d).instanceID),
                              pre.d.name)

\* C1, as stated: a Create that returns an error, at whatever step, returns
\* with the identifier still empty.
C1_FailedCreateLeavesNoId ==
    (Returned("Create") /\ result = "error") => id = Empty

\* C1, amended: a Create that returns an error returns with the identifier
\* empty exactly when no remote create succeeded; when the remote create
\* succeeded and the Read that follows fails, the identifier set at line 103
\* is still there.
C1_FailedCreateIdIffCreated ==
    (Returned("Create") /\ result = "error") =>
        /\ (id = Empty) <=> ~CreateSucceeded
        /\ id # Empty => id = IdentifierOfCreate

C1_Witness ==
    /\ Returned("Create")
    /\ result = "error"
    /\ CreateSucceeded
    /\ LastCallIs("ListUsers", "Transport")
    /\ id = IdentifierOfCreate

\* C2: when the ListUsers lookup of a Read answers NotFound, Read returns no
\* diagnostics and the identifier is cleared.
C2_ReadOfAbsent ==
    (pc = "done" /\ LastCallIs("ListUsers", "NotFound")) =>
        /\ result = "ok"
        /\ err = Nil
        /\ id = Empty

C2_Witness ==
    /\ Returned("Read")
    /\ pre.id = resourceScalewayRdbUserID(FrPar, InstanceUUID, <<"u">>)
    /\ LastCallIs("ListUsers", "NotFound")
    /\ id = Empty
    /\ result = "ok"

\* C3: a NotFound answer of the remote delete call never makes Delete return
\* an error; in particular a second Delete on the identifier of a Delete that
\* succeeded, answered NotFound, succeeds too.
C3_DeleteIdempotent ==
    (Returned("Delete") /\ \E i \in 1..Len(log) :
                              log[i].api = "DeleteUser" /\ log[i].reply = "NotFound") =>
        /\ result = "ok"
        /\ err = Nil

C3_Witness ==
    /\ Returned("Delete")
    /\ prev.op = "Delete"
    /\ prev.result = "ok"
    /\ prev.id = pre.id
    /\ LastCallIs("DeleteUser", "NotFound")
    /\ result = "ok"


MutationCalls ==
    SelectSeq(log, LAMBDA c : c.api \in {"CreateUser", "DeleteUser"})

\* the operation ended with every remote mutation call answered by a
\* conflict, and every wait on the instance successful
ExhaustedByConflicts ==
    /\ op \in {"Create", "Delete"}
    /\ pc = "done"
    /\ MutationCalls # <<>>
    /\ \A i \in 1..Len(log) :
          IF log[i].api \in {"CreateUser", "DeleteUser"}
          THEN log[i].reply = "Conflict"
          ELSE log[i].reply = "ok"

C5_NoDuplicateCreation ==
    /\ \A i \in 1..Len(log) :
          (log[i].api = "CreateUser" /\ log[i].reply = "ok") =>
              \A j \in (i + 1)..Len(log) : log[j].api # "CreateUser"
    /\ (op = "Create" /\ pc = "r_parse") =>
          /\ CreateSucceeded
          /\ id # Empty
          /\ id = IdentifierOfCreate

C5_Witness ==
    /\ op = "Create"
    /\ pc = "r_parse"
    /\ Len(CallsOf("CreateUser")) = 2
    /\ CallsOf("CreateUser")[1].reply = "Conflict"
    /\ CallsOf("CreateUser")[2].reply = "ok"
    /\ id = resourceScalewayRdbUserID(FrPar, InstanceUUID, <<"u">>)

\* the i-th remote call is a create or delete that failed with an error
\* other than a conflict
FailedWithoutConflict(i) ==
    /\ log[i].api \in {"CreateUser", "DeleteUser"}
    /\ log[i].reply \notin {"ok", "Conflict"}

\* C6, as stated: after a create or delete call that failed with an error
\* other than ConflictingOperation no further remote call is made and the
\* operation returns that error.
C6_OtherErrorsSurfaced ==
    \A i \in 1..Len(log) :
        FailedWithoutConflict(i) =>
            /\ i = Len(log)
            /\ pc = "done"
            /\ result = "error"
            /\ err = log[i].reply

\* C6, amended: after a create or delete call that failed with an error
\* other than ConflictingOperation no further remote call is made; the
\* operation returns that error, except that Delete returns success when the
\* error is NotFound.
C6_OtherErrorsNotRetried ==
    \A i \in 1..Len(log) :
        FailedWithoutConflict(i) =>
            /\ i = Len(log)
            /\ pc = "done"
            /\ IF log[i].api = "DeleteUser" /\ log[i].reply = "NotFound"
               THEN result = "ok" /\ err = Nil
               ELSE result = "error" /\ err = log[i].reply

C6_Witness ==
    /\ Returned("Create")
    /\ LastCallIs("CreateUser", "Transport")
    /\ Len(CallsOf("CreateUser")) = 1
    /\ result = "error"
    /\ err = "Transport"

\* C7: the update request carries the region, instance and name of the
\* identifier, the password exactly when the planned password differs from
\* the prior one, and is_admin exactly when the planned is_admin differs.
C7_PartialUpdate ==
    req.built =>
        /\ req.Region = resourceScalewayRdbUserParseID(pre.id).region
        /\ req.InstanceID = resourceScalewayRdbUserParseID(pre.id).instanceID
        /\ req.Name = resourceScalewayRdbUserParseID(pre.id).userName
        /\ req.Password = IF pre.d.password # old.password
                          THEN <<pre.d.password>> ELSE <<>>
        /\ req.IsAdmin = IF pre.d.is_admin # old.is_admin
                         THEN <<pre.d.is_admin>> ELSE <<>>

C7_Witness ==
    /\ req.built
    /\ old.password = <<"p">>
    /\ pre.d.password = <<"q">>
    /\ pre.d.is_admin = old.is_admin
    /\ req.Password = <<(<<"q">>)>>
    /\ req.IsAdmin = <<>>


-----------------------------------------------------------------------------
(* Properties of the codec, under CodecSpec *)

SeparatorFree(c) == \A k \in 1..Len(c) : c[k] # Sep

\* the number of separator-delimited components of a string
ComponentCount(str) == Cardinality({k \in 1..Len(str) : str[k] = Sep}) + 1

\* C8: for components that hold no separator, decoding the encoded
\* identifier returns the three components, and no error.
C8_RoundTrip ==
    (cPhase = "roundtrip" /\ \A k \in 1..3 : SeparatorFree(cArgs[k])) =>
        /\ ~cParsed.err
        /\ cParsed.region = cArgs[1]
        /\ cParsed.instanceID = cArgs[2]
        /\ cParsed.userName = cArgs[3]

C8_Witness ==
    /\ cPhase = "roundtrip"
    /\ cArgs = << <<"a">>, <<"b", "a">>, <<"b">> >>
    /\ cStr = <<"a", Sep, "b", "a", Sep, "b">>
    /\ ~cParsed.err
    /\ cParsed.userName = <<"b">>

\* C9: decoding fails exactly when the string has not three components; a
\* failed decode returns no component, and a successful one returns a
\* non-empty locality.
C9_DecodeAllOrNothing ==
    cPhase \in {"decoded", "roundtrip"} =>
        /\ cParsed.err <=> ComponentCount(cStr) # 3
        /\ cParsed.err =>
              /\ cParsed.region = Empty
              /\ cParsed.instanceID = Empty
              /\ cParsed.userName = Empty
        /\ ~cParsed.err => cParsed.region # Empty

-----------------------------------------------------------------------------
(* Locality *)

\* the precedence of the locality resolver: the explicit setting, else the
\* locality inherited from the parent identifier, else the provider default
ResolveLocality(explicit, inherited, default) ==
    IF explicit # Empty THEN explicit
    ELSE IF inherited # Empty THEN inherited
    ELSE default

\* C10: every remote call of a Create targets the region attribute when it
\* is set, else the locality of instance_id, else the provider default.
C10_LocalityPrecedence ==
    op = "Create" =>
        \A i \in 1..Len(log) :
            TargetedRegion(log[i].region) =
                ResolveLocality(pre.d.region,
                                parseRegionalID(pre.d.instance_id).region,
                                ProviderDefaultRegion)


-----------------------------------------------------------------------------
(* Outcomes of the operations *)

\* C11: a Create that returns success returns with a non-empty identifier,
\* which is locality/instanceID of the declared instance_id followed by the
\* name of the user the create call returned.
C11_CreatedIdentifier ==
    (Returned("Create") /\ result = "ok") =>
        /\ id # Empty
        /\ id = resourceScalewayRdbUserID(parseRegionalID(pre.d.instance_id).region,
                                          parseRegionalID(pre.d.instance_id).id,
                                          user.name)

\* C12: an Update that returns an error returns with the identifier and the
\* attributes instance_id, name, is_admin and password it was entered with.
C12_FailedUpdateTouchesNothing ==
    (Returned("Update") /\ result = "error") =>
        /\ id = pre.id
        /\ d.instance_id = pre.d.instance_id
        /\ d.name = pre.d.name
        /\ d.is_admin = pre.d.is_admin
        /\ d.password = pre.d.password

C12_Witness ==
    /\ Returned("Update")
    /\ result = "error"
    /\ Len(log) = 4
    /\ log[2].api = "UpdateUser"
    /\ log[2].reply = "ok"
    /\ LastCallIs("ListUsers", "Transport")
    /\ id = pre.id
    /\ id # Empty
    /\ d = pre.d

\* C13: a Delete that returns an error returns with the identifier it was
\* entered with, which is not empty, so that Delete can be entered again.
C13_FailedDeleteKeepsId ==
    (Returned("Delete") /\ result = "error") =>
        /\ id = pre.id
        /\ id # Empty

\* a Delete that failed, then a second Delete on the same identifier that
\* reaches the delete call
C13_Witness ==
    /\ op = "Delete"
    /\ prev.op = "Delete"
    /\ prev.result = "error"
    /\ prev.id = pre.id
    /\ id = pre.id
    /\ LastCallIs("DeleteUser", "ok")


Mutations == {"CreateUser", "UpdateUser", "DeleteUser"}

\* C14: an Update whose update call was answered ConflictingOperation does
\* not return on that conflict: a wait on the instance follows it, as after
\* a conflict of the create and delete calls.
C14_UpdateRetriesConflicts ==
    Returned("Update") =>
        \A i \in 1..Len(log) :
            (log[i].api = "UpdateUser" /\ log[i].reply = "Conflict") =>
                /\ i < Len(log)
                /\ log[i + 1].api = "WaitForInstance"

\* the operation in progress was entered with an identifier (Read, Update,
\* Delete) or an instance_id (Create) that does not parse
EnteredUnparseable ==
    \/ /\ op \in {"Read", "Update", "Delete"}
       /\ resourceScalewayRdbUserParseID(pre.id).err
    \/ /\ op = "Create"
       /\ parseRegionalID(pre.d.instance_id).err

\* C15: an operation entered with an identifier or an instance_id that does
\* not parse makes no remote call and returns an error.
C15_ParseFailureIsFatal ==
    EnteredUnparseable =>
        /\ log = <<>>
        /\ pc = "done" => result = "error"

\* C16: a Read or an Update returns with the identifier it was entered with,
\* or with the empty identifier.
C16_IdentifierNeverReplaced ==
    (Returned("Read") \/ Returned("Update")) => id \in {pre.id, Empty}

\* C17: every remote mutation call comes right after a wait on the instance
\* that succeeded, and no remote call at all follows a wait that failed.
C17_WaitBeforeMutation ==
    \A i \in 1..Len(log) :
        /\ log[i].api \in Mutations =>
              /\ i > 1
              /\ log[i - 1].api = "WaitForInstance"
              /\ log[i - 1].reply = "ok"
        /\ (log[i].api = "WaitForInstance" /\ log[i].reply # "ok") => i = Len(log)

C17_Witness ==
    /\ op = "Delete"
    /\ Len(log) = 4
    /\ log[1] = Call("WaitForInstance", FrPar, InstanceUUID, "ok")
    /\ log[2] = Call("DeleteUser", FrPar, InstanceUUID, "Conflict")
    /\ log[3] = Call("WaitForInstance", FrPar, InstanceUUID, "ok")
    /\ log[4] = Call("DeleteUser", FrPar, InstanceUUID, "ok")

\* C18: every operation that has returned has returned diagnostics, with or
\* without an error; none ended in a panic.
C18_ReadNeverPanics ==
    pc = "done" => result \in {"ok", "error"}

\* C19: after a wait on the instance that failed, the operation has returned
\* an error.
C19_FailedWaitIsAnError ==
    \A i \in 1..Len(log) :
        (log[i].api = "WaitForInstance" /\ log[i].reply # "ok") =>
            /\ pc = "done"
            /\ result = "error"

=============================================================================
